---- MODULE Spec2Model ----
(***************************************************************************)
(* Classroom-management server: the HTTP route layer (server/routes.ts)    *)
(* on top of the SQLite repository (server/storage.ts).  The state is the  *)
(* six tables of the database, the last request with its response, and    *)
(* the handlers that are waiting at an await.  better-sqlite3 answers      *)
(* synchronously, so the awaits of one handler all resolve in the          *)
(* microtask queue and a handler runs to its response before the next      *)
(* request is taken: in the specifications Spec, SpecClasses,              *)
(* SpecAttendance, SpecGrades, SpecBulk, SpecIntegrity, SpecDelete,        *)
(* SpecSummary, SpecDuplicates and SpecRoster an action is one request     *)
(* handled from its first line to its response, and in SpecUpdates also a  *)
(* call of a repository method that no route uses.  SpecHandlers and       *)
(* SpecRegister do not rely on the driver: there a handler is split at its *)
(* awaits and another handler may run in between, as with a repository     *)
(* that answers asynchronously.                                            *)
(***************************************************************************)
EXTENDS Integers, Sequences, FiniteSets, TLC

VARIABLES users, classes, enrollments, attendance, assessments, grades,
          nextId, req, resp, pending

vars == <<users, classes, enrollments, attendance, assessments, grades,
          nextId, req, resp, pending>>

tables == <<users, classes, enrollments, attendance, assessments, grades, nextId>>

(***************************************************************************)
(* Bounds of the model.                                                    *)
(***************************************************************************)
MaxUsers == 2
MaxClasses == 2
MaxEnrollments == 2
MaxAttendance == 4
MaxAssessments == 2
MaxGrades == 3

(***************************************************************************)
(* Input alphabets.                                                        *)
(***************************************************************************)
Usernames == {"teacher1", "student1"}
Passwords == {"password123", "letmein99"}
Roles == {"teacher", "student"}
Statuses == {"present", "absent", "late", "excused"}
Subjects == {"mathematics"}
RandomSuffixes == {"XYZ123", "ABC456"}
Dates == {"2024-01-01"}
Scores == {85, 88, 78}

\* JavaScript's undefined / a query that found no row.
Undefined == [undefined |-> TRUE]

IsRow(x) == "id" \in DOMAIN x

\* The first row of a result set, in rowid order (.get()), or undefined.
FirstRow(rows) ==
    IF rows = {} THEN Undefined
    ELSE CHOOSE r \in rows : \A q \in rows : r.id <= q.id

(***************************************************************************)
(* Repository: users.                                                      *)
(***************************************************************************)
\* A misbehaving createUser: the UNIQUE constraint on username is not enforced.
createUserNoUnique(tbl, id, userData) ==
    [ok |-> TRUE,
     row |-> [id |-> id, username |-> userData.username, password |-> userData.password,
              role |-> userData.role, name |-> userData.name],
     tbl |-> tbl \cup {[id |-> id, username |-> userData.username,
                        password |-> userData.password,
                        role |-> userData.role, name |-> userData.name]}]

\* INSERT INTO users ... RETURNING; username is UNIQUE NOT NULL.
createUser(tbl, id, userData) ==
    LET row == [id |-> id, username |-> userData.username, password |-> userData.password,
                role |-> userData.role, name |-> userData.name]
    IN IF \E u \in tbl : u.username = userData.username
         THEN [ok |-> FALSE, row |-> Undefined, tbl |-> tbl]
         ELSE [ok |-> TRUE, row |-> row, tbl |-> tbl \cup {row}]

getUserByUsername(tbl, username) ==
    FirstRow({u \in tbl : u.username = username})

(***************************************************************************)
(* Route layer: request validation.                                        *)
(***************************************************************************)
\* loginSchema: username >= 3 characters, password >= 6, role in the enum.
loginSchemaOk(body) ==
    /\ {"username", "password", "role"} \subseteq DOMAIN body
    /\ Len(body.username) >= 3
    /\ Len(body.password) >= 6
    /\ body.role \in {"teacher", "student"}

\* insertUserSchema: the four NOT NULL text columns, id omitted.
insertUserSchemaOk(body) ==
    {"username", "password", "role", "name"} \subseteq DOMAIN body

\* A misbehaving response shaping: the stored row is sent as it is.
userWithPassword(user) == user

\* const { password, ...userWithoutPassword } = user
userWithoutPassword(user) ==
    [f \in DOMAIN user \ {"password"} |-> user[f]]

Message(m) == [message |-> m]

Respond(status, body) == [status |-> status, body |-> body]

(***************************************************************************)
(* Requests.                                                               *)
(***************************************************************************)
LoginBodies ==
    [username : Usernames, password : Passwords, role : Roles]
      \cup {[username |-> "ab", password |-> "password123", role |-> "teacher"],
            [username |-> "teacher1", password |-> "password123"]}

RegisterBodies ==
    [username : Usernames, password : {"password123"}, role : Roles, name : {"John Smith"}]
      \cup {[username |-> "teacher1", role |-> "teacher", name |-> "John Smith"]}

(***************************************************************************)
(* POST /api/auth/login                                                    *)
(***************************************************************************)
\* A misbehaving credential check: the role is not compared.
loginRejectsNoRole(user, data) ==
    \/ ~IsRow(user)
    \/ user.password # data.password

\* !user || user.password !== data.password || user.role !== data.role
loginRejects(user, data) ==
    \/ ~IsRow(user)
    \/ user.password # data.password
    \/ user.role # data.role

\* A talkative refusal: the message names the check that failed.
invalidCredentialsDetailed(user, data) ==
    IF ~IsRow(user) THEN Message("Unknown username")
    ELSE IF user.password # data.password THEN Message("Wrong password")
    ELSE Message("Wrong role")

\* { message: 'Invalid credentials' }, whichever check failed.
invalidCredentials(user, data) == Message("Invalid credentials")

Login(body) ==
    /\ UNCHANGED pending
    /\ req' = [op |-> "login", body |-> body]
    /\ IF ~loginSchemaOk(body)
         THEN resp' = Respond(400, Message("ZodError"))
         ELSE LET user == getUserByUsername(users, body.username)
              IN IF loginRejects(user, body)
                   THEN resp' = Respond(401, invalidCredentials(user, body))
                   ELSE resp' = Respond(200, userWithoutPassword(user))
    /\ UNCHANGED tables

(***************************************************************************)
(* POST /api/auth/register                                                 *)
(***************************************************************************)
Register(body) ==
    /\ nextId.users <= MaxUsers
    /\ UNCHANGED pending
    /\ req' = [op |-> "register", body |-> body]
    /\ IF ~insertUserSchemaOk(body)
         THEN /\ resp' = Respond(400, Message("ZodError"))
              /\ UNCHANGED tables
         ELSE IF IsRow(getUserByUsername(users, body.username))
                THEN /\ resp' = Respond(400, Message("Username already exists"))
                     /\ UNCHANGED tables
                ELSE LET r == createUser(users, nextId.users, body)
                     IN IF r.ok
                          THEN /\ users' = r.tbl
                               /\ nextId' = [nextId EXCEPT !.users = @ + 1]
                               /\ resp' = Respond(201, userWithoutPassword(r.row))
                               /\ UNCHANGED <<classes, enrollments, attendance,
                                              assessments, grades>>
                          ELSE /\ resp' = Respond(500, Message("Internal server error"))
                               /\ UNCHANGED tables

(***************************************************************************)
(* Repository: classes and enrollments.                                    *)
(***************************************************************************)
\* body.f || dflt
Field(body, f, dflt) == IF f \in DOMAIN body THEN body[f] ELSE dflt

\* text('date') and text('created_at') with
\* .default(String(new Date().toISOString())): the time the schema module was
\* loaded.
DefaultDate == "server-start"

\* A misbehaving createClass: class_code is not UNIQUE.
createClassNoUnique(tbl, userTbl, id, classData) ==
    LET row == [f \in DOMAIN classData \cup {"id", "createdAt"} |->
                   CASE f = "id" -> id
                     [] f = "createdAt" -> Field(classData, "createdAt", DefaultDate)
                     [] OTHER -> classData[f]]
    IN IF \/ "name" \notin DOMAIN classData
          \/ "gradeLevel" \notin DOMAIN classData
          \/ ~\E u \in userTbl : u.id = classData.teacherId
         THEN [ok |-> FALSE, row |-> Undefined, tbl |-> tbl]
         ELSE [ok |-> TRUE, row |-> row, tbl |-> tbl \cup {row}]

\* INSERT INTO classes ... RETURNING; name, subject, grade_level NOT NULL,
\* class_code UNIQUE, teacher_id REFERENCES users(id).
createClass(tbl, userTbl, id, classData) ==
    LET row == [f \in DOMAIN classData \cup {"id", "createdAt"} |->
                   CASE f = "id" -> id
                     [] f = "createdAt" -> Field(classData, "createdAt", DefaultDate)
                     [] OTHER -> classData[f]]
    IN IF \/ "name" \notin DOMAIN classData
          \/ "gradeLevel" \notin DOMAIN classData
          \/ \E c \in tbl : c.classCode = classData.classCode
          \/ ~\E u \in userTbl : u.id = classData.teacherId
         THEN [ok |-> FALSE, row |-> Undefined, tbl |-> tbl]
         ELSE [ok |-> TRUE, row |-> row, tbl |-> tbl \cup {row}]

\* A misbehaving getClassByCode: the code is not compared.
getClassByCodeAny(tbl, classCode) ==
    FirstRow(tbl)

getClassByCode(tbl, classCode) ==
    FirstRow({c \in tbl : c.classCode = classCode})

\* Rows of other tables that reference the class through a foreign key
\* (better-sqlite3 opens the database with foreign keys enforced).
ReferencesClass(id) ==
    \/ \E e \in enrollments : e.classId = id
    \/ \E a \in attendance : a.classId = id
    \/ \E a \in assessments : a.classId = id

\* A database that does not enforce the foreign keys: the class row always goes.
deleteClassUnchecked(tbl, id) ==
    [ok |-> TRUE, tbl |-> {c \in tbl : c.id # id}]

\* A misbehaving deleteClass: the WHERE clause is missing.
deleteClassEvery(tbl, id) ==
    [ok |-> TRUE, tbl |-> {}]

\* DELETE FROM classes WHERE id = ?; the foreign keys of enrollments, attendance
\* and assessments have no ON DELETE action, so a referenced class cannot go.
deleteClass(tbl, id) ==
    IF (\E c \in tbl : c.id = id) /\ ReferencesClass(id)
      THEN [ok |-> FALSE, tbl |-> tbl]
      ELSE [ok |-> TRUE, tbl |-> {c \in tbl : c.id # id}]

\* A repository that looks for the pair before it inserts, and returns the
\* row it finds.
createEnrollmentIfAbsent(tbl, userTbl, classTbl, id, enrollmentData) ==
    LET row == [id |-> id, classId |-> enrollmentData.classId,
                studentId |-> enrollmentData.studentId]
        existing == {e \in tbl : /\ e.studentId = enrollmentData.studentId
                                  /\ e.classId = enrollmentData.classId}
    IN IF existing # {}
         THEN [ok |-> TRUE, row |-> FirstRow(existing), tbl |-> tbl]
         ELSE [ok |-> TRUE, row |-> row, tbl |-> tbl \cup {row}]

\* A database that does not enforce the foreign keys of enrollments.
createEnrollmentUnchecked(tbl, userTbl, classTbl, id, enrollmentData) ==
    LET row == [id |-> id, classId |-> enrollmentData.classId,
                studentId |-> enrollmentData.studentId]
    IN [ok |-> TRUE, row |-> row, tbl |-> tbl \cup {row}]

\* INSERT INTO enrollments ... RETURNING; the table has no key besides id,
\* student_id REFERENCES users(id), class_id REFERENCES classes(id).
createEnrollment(tbl, userTbl, classTbl, id, enrollmentData) ==
    LET row == [id |-> id, classId |-> enrollmentData.classId,
                studentId |-> enrollmentData.studentId]
    IN IF \/ ~\E u \in userTbl : u.id = enrollmentData.studentId
          \/ ~\E c \in classTbl : c.id = enrollmentData.classId
         THEN [ok |-> FALSE, row |-> Undefined, tbl |-> tbl]
         ELSE [ok |-> TRUE, row |-> row, tbl |-> tbl \cup {row}]

(***************************************************************************)
(* POST /api/classes                                                       *)
(***************************************************************************)
\* const { teacherId, name, subject, description, gradeLevel } = req.body
ClassFields == {"teacherId", "name", "subject", "description", "gradeLevel"}

\* subject.substring(0, 4).toUpperCase(), for the subjects of the model.
SubjectPrefix(subject) ==
    CASE subject = "mathematics" -> "MATH"
      [] subject = "science" -> "SCIE"
      [] subject = "art" -> "ART"

\* `${prefix}-${randomStr}`
ClassCode(prefix, randomStr) == prefix \o "-" \o randomStr

ClassBodies ==
    [teacherId : 1..MaxUsers, name : {"Mathematics 101"}, subject : Subjects,
     gradeLevel : {"10"}]
      \cup {[name |-> "Mathematics 101", subject |-> "mathematics", gradeLevel |-> "10"],
            [teacherId |-> 1, name |-> "Mathematics 101", gradeLevel |-> "10"]}

CreateClass(body, randomStr) ==
    /\ nextId.classes <= MaxClasses
    /\ UNCHANGED pending
    /\ req' = [op |-> "createClass", body |-> body]
    /\ IF "teacherId" \notin DOMAIN body
         THEN /\ resp' = Respond(400, Message("Teacher ID is required and must be a number"))
              /\ UNCHANGED tables
         ELSE IF "subject" \notin DOMAIN body
                THEN /\ resp' = Respond(500, Message("Internal server error"))
                     /\ UNCHANGED tables
                ELSE LET classData ==
                             [f \in (DOMAIN body \cap ClassFields)
                                       \cup {"description", "classCode"} |->
                                CASE f = "description" -> Field(body, "description", "")
                                  [] f = "classCode" ->
                                       ClassCode(SubjectPrefix(body.subject), randomStr)
                                  [] OTHER -> body[f]]
                         r == createClass(classes, users, nextId.classes, classData)
                     IN IF r.ok
                          THEN /\ classes' = r.tbl
                               /\ nextId' = [nextId EXCEPT !.classes = @ + 1]
                               /\ resp' = Respond(201, r.row)
                               /\ UNCHANGED <<users, enrollments, attendance,
                                              assessments, grades>>
                          ELSE /\ resp' = Respond(500, Message("Internal server error"))
                               /\ UNCHANGED tables

(***************************************************************************)
(* DELETE /api/classes/:id                                                 *)
(***************************************************************************)
\* req.existed records whether the class was there when the request came in.
DeleteClass(id) ==
    /\ UNCHANGED pending
    /\ req' = [op |-> "deleteClass", id |-> id, existed |-> \E c \in classes : c.id = id]
    /\ LET r == deleteClass(classes, id)
       IN IF r.ok
            THEN /\ classes' = r.tbl
                 /\ resp' = Respond(200, Message("Class deleted successfully"))
                 /\ UNCHANGED <<users, enrollments, attendance, assessments, grades, nextId>>
            ELSE /\ resp' = Respond(500, Message("Internal server error"))
                 /\ UNCHANGED tables

(***************************************************************************)
(* PUT /api/classes/:id                                                    *)
(***************************************************************************)
\* SQL NULL in a text column.
Null == "<null>"

\* A misbehaving updateClass: the WHERE clause is missing.
updateClassEvery(tbl, id, classData) ==
    LET set(c) == [f \in DOMAIN c |-> IF f \in DOMAIN classData THEN classData[f]
                                                                ELSE c[f]]
        new == {set(c) : c \in tbl}
    IN [ok |-> TRUE, row |-> FirstRow(new), tbl |-> new]

\* UPDATE classes SET ... WHERE id = ? RETURNING, then .get(): the first row
\* the statement changed, undefined when no row has the id.  The statement
\* itself never fails for the values of the model.
updateClass(tbl, id, classData) ==
    LET old == {c \in tbl : c.id = id}
        set(c) == [f \in DOMAIN c |-> IF f \in DOMAIN classData THEN classData[f]
                                                                ELSE c[f]]
        new == {set(c) : c \in old}
    IN [ok |-> TRUE, row |-> FirstRow(new), tbl |-> (tbl \ old) \cup new]

\* const { name, subject, description, gradeLevel } = req.body
UpdateFields == {"name", "subject", "description", "gradeLevel"}

\* Bodies that change one field, three fields, clear the description, or name
\* no field of a class at all.
UpdateBodies ==
    {[name |-> "Algebra I"],
     [gradeLevel |-> "12"],
     [description |-> "Evening group"],
     [description |-> ""],
     [name |-> "Algebra I", subject |-> "algebra", gradeLevel |-> "12"],
     [teacherId |-> 2]}

\* An update without any value to set is refused by the query builder of some
\* versions of the library and is a statement without effect in others: the
\* request is answered 500 or 200 and nothing is written.
UpdateClass(id, body) ==
    LET updateData == [f \in DOMAIN body \cap UpdateFields |->
                          IF f = "description" /\ body[f] = "" THEN Null ELSE body[f]]
        existed == \E c \in classes : c.id = id
    IN /\ UNCHANGED pending
       /\ req' = [op |-> "updateClass", id |-> id, existed |-> existed,
                  fields |-> DOMAIN updateData]
       /\ IF DOMAIN updateData = {}
            THEN /\ \/ resp' = Respond(500, Message("Internal server error"))
                    \/ resp' = Respond(200, FirstRow({c \in classes : c.id = id}))
                 /\ UNCHANGED tables
            ELSE LET r == updateClass(classes, id, updateData)
                 IN /\ classes' = r.tbl
                    /\ resp' = Respond(200, r.row)
                    /\ UNCHANGED <<users, enrollments, attendance, assessments,
                                   grades, nextId>>

(***************************************************************************)
(* POST /api/enrollments                                                   *)
(***************************************************************************)
\* classCodeSchema: a string of at least 6 characters.
classCodeSchemaOk(body) ==
    /\ "classCode" \in DOMAIN body
    /\ Len(body.classCode) >= 6

ClassCodes == {ClassCode(SubjectPrefix(s), r) : s \in Subjects, r \in RandomSuffixes}

EnrollBodies ==
    [classCode : ClassCodes \cup {"NOPE-000000", "abc"}, studentId : 1..MaxUsers]
      \cup {[classCode |-> c] : c \in ClassCodes}

PostEnrollment(body) ==
    /\ nextId.enrollments <= MaxEnrollments
    /\ UNCHANGED pending
    /\ req' = [op |-> "postEnrollment", body |-> body]
    /\ IF ~classCodeSchemaOk(body)
         THEN /\ resp' = Respond(400, Message("ZodError"))
              /\ UNCHANGED tables
         ELSE IF "studentId" \notin DOMAIN body
                THEN /\ resp' = Respond(400, Message("Valid student ID is required"))
                     /\ UNCHANGED tables
                ELSE LET classRecord == getClassByCode(classes, body.classCode)
                     IN IF ~IsRow(classRecord)
                          THEN /\ resp' = Respond(404, Message("Class not found"))
                               /\ UNCHANGED tables
                          ELSE LET r == createEnrollment(enrollments, users, classes,
                                                         nextId.enrollments,
                                                         [studentId |-> body.studentId,
                                                          classId |-> classRecord.id])
                               IN IF r.ok
                                    THEN /\ enrollments' = r.tbl
                                         /\ nextId' = [nextId EXCEPT !.enrollments = @ + 1]
                                         /\ resp' = Respond(201,
                                               [message |-> "Successfully enrolled in class",
                                                enrollment |-> r.row])
                                         /\ UNCHANGED <<users, classes, attendance,
                                                        assessments, grades>>
                                    ELSE /\ resp' = Respond(500,
                                                       Message("Internal server error"))
                                         /\ UNCHANGED tables

(***************************************************************************)
(* Repository: attendance, assessments and grades.                         *)
(***************************************************************************)
\* The rows of a result set as an array, in rowid order.
RECURSIVE RowsToSeq(_)
RowsToSeq(rows) ==
    IF rows = {} THEN <<>>
    ELSE LET first == FirstRow(rows)
         IN <<first>> \o RowsToSeq(rows \ {first})

\* INSERT INTO attendance ... RETURNING; columns id, student_id, class_id, status,
\* date; no key besides id; student_id, class_id and status are NOT NULL, status
\* is free text, student_id and class_id are foreign keys.
createAttendance(tbl, userTbl, classTbl, id, attendanceData) ==
    IF \/ ~({"studentId", "classId", "status"} \subseteq DOMAIN attendanceData)
       \/ ~\E u \in userTbl : u.id = attendanceData.studentId
       \/ ~\E c \in classTbl : c.id = attendanceData.classId
      THEN [ok |-> FALSE, row |-> Undefined, tbl |-> tbl]
      ELSE LET row == [id |-> id, status |-> attendanceData.status,
                       classId |-> attendanceData.classId,
                       studentId |-> attendanceData.studentId,
                       date |-> Field(attendanceData, "date", DefaultDate)]
           IN [ok |-> TRUE, row |-> row, tbl |-> tbl \cup {row}]

getAttendanceByStudent(tbl, studentId, classId) ==
    {a \in tbl : a.studentId = studentId /\ a.classId = classId}

\* INSERT INTO assessments ... RETURNING; class_id is a foreign key.
createAssessment(tbl, classTbl, id, assessmentData) ==
    LET row == [id |-> id, classId |-> assessmentData.classId,
                name |-> assessmentData.name]
    IN IF ~\E c \in classTbl : c.id = assessmentData.classId
         THEN [ok |-> FALSE, row |-> Undefined, tbl |-> tbl]
         ELSE [ok |-> TRUE, row |-> row, tbl |-> tbl \cup {row}]

getAssessmentsByClass(tbl, classId) ==
    {a \in tbl : a.classId = classId}

\* INSERT INTO grades ... RETURNING; no key besides id; student_id,
\* assessment_id and score are NOT NULL, student_id and assessment_id are
\* foreign keys.
createGrade(tbl, userTbl, assessmentTbl, id, gradeData) ==
    IF \/ ~({"studentId", "assessmentId", "score"} \subseteq DOMAIN gradeData)
       \/ ~\E u \in userTbl : u.id = gradeData.studentId
       \/ ~\E a \in assessmentTbl : a.id = gradeData.assessmentId
      THEN [ok |-> FALSE, row |-> Undefined, tbl |-> tbl]
      ELSE LET row == [id |-> id, studentId |-> gradeData.studentId,
                       assessmentId |-> gradeData.assessmentId,
                       score |-> gradeData.score]
           IN [ok |-> TRUE, row |-> row, tbl |-> tbl \cup {row}]

\* A misbehaving getGradesByStudent: grades of every class are returned.
getGradesByStudentAnyClass(tbl, assessmentTbl, studentId, classId) ==
    {g \in tbl : g.studentId = studentId}

getGradesByStudent(tbl, assessmentTbl, studentId, classId) ==
    LET assessmentIds == {a.id : a \in getAssessmentsByClass(assessmentTbl, classId)}
    IN IF assessmentIds = {} THEN {}
       ELSE {g \in tbl : g.studentId = studentId /\ g.assessmentId \in assessmentIds}

\* A misbehaving getEnrollmentsByStudent: a join, one entry per enrollment row.
getEnrollmentsByStudentPerRow(studentId) ==
    LET mine == {e \in enrollments : e.studentId = studentId}
        classOf(e) == FirstRow({c \in classes : c.id = e.classId})
        teacherOf(c) == FirstRow({t \in users : t.id = c.teacherId})
        enriched(c) == [f \in DOMAIN c \cup {"teacher", "attendance", "grade"} |->
                          CASE f = "teacher" -> IF IsRow(teacherOf(c))
                                                  THEN teacherOf(c).name
                                                  ELSE "Unknown"
                            [] f = "attendance" -> "0%"
                            [] f = "grade" -> "N/A"
                            [] OTHER -> c[f]]
    IN [i \in 1..Cardinality(mine) |-> enriched(classOf(RowsToSeq(mine)[i]))]

\* SELECT of the student's enrollments, their classes and the classes' teachers;
\* attendance and grade are the literals '0%' and 'N/A'.
getEnrollmentsByStudent(studentId) ==
    LET mine == {e \in enrollments : e.studentId = studentId}
        classIds == {e.classId : e \in mine}
        cls == {c \in classes : c.id \in classIds}
        teacherOf(c) == FirstRow({t \in users : t.id = c.teacherId})
        enriched(c) == [f \in DOMAIN c \cup {"teacher", "attendance", "grade"} |->
                          CASE f = "teacher" -> IF IsRow(teacherOf(c))
                                                  THEN teacherOf(c).name
                                                  ELSE "Unknown"
                            [] f = "attendance" -> "0%"
                            [] f = "grade" -> "N/A"
                            [] OTHER -> c[f]]
    IN IF mine = {} \/ cls = {} THEN <<>>
       ELSE [i \in 1..Cardinality(cls) |-> enriched(RowsToSeq(cls)[i])]

(***************************************************************************)
(* Route layer: aggregates computed per request.                           *)
(***************************************************************************)
\* Math.round(num / den) for num >= 0, den > 0: the nearest integer, a half
\* going up.
MathRound(num, den) == (2 * num + den) \div (2 * den)

\* A misbehaving summary: a late student counts as present.
attendanceSummaryLate(records) ==
    LET count(st) == Cardinality({r \in records : r.status = st})
        present == count("present") + count("late")
        totalRecords == Cardinality(records)
    IN [present |-> present, absent |-> count("absent"), late |-> count("late"),
        excused |-> count("excused"),
        rate |-> IF totalRecords > 0 THEN MathRound(present * 100, totalRecords) ELSE 0]

\* The switch over record.status and
\* totalRecords > 0 ? Math.round((present / totalRecords) * 100) : 0
attendanceSummary(records) ==
    LET count(st) == Cardinality({r \in records : r.status = st})
        present == count("present")
        totalRecords == Cardinality(records)
    IN [present |-> present, absent |-> count("absent"), late |-> count("late"),
        excused |-> count("excused"),
        rate |-> IF totalRecords > 0 THEN MathRound(present * 100, totalRecords) ELSE 0]

RECURSIVE SumScores(_)
SumScores(gs) ==
    IF gs = {} THEN 0
    ELSE LET g == CHOOSE x \in gs : TRUE
         IN g.score + SumScores(gs \ {g})

\* (num / den).toFixed(1) for num >= 0: the decimal string with one digit after
\* the point, nearest to the quotient.
ToFixed1(num, den) ==
    LET tenths == MathRound(10 * num, den)
    IN ToString(tenths \div 10) \o "." \o ToString(tenths % 10)

\* grades.length > 0 ? (totalScore / grades.length).toFixed(1) : 'N/A'
currentGrade(gs) ==
    IF Cardinality(gs) > 0 THEN ToFixed1(SumScores(gs), Cardinality(gs)) ELSE "N/A"

(***************************************************************************)
(* POST /api/attendance                                                    *)
(***************************************************************************)
\* insertAttendanceSchema: studentId, classId and status required, date optional.
insertAttendanceSchemaOk(body) ==
    {"studentId", "classId", "status"} \subseteq DOMAIN body

\* All four statuses for student 2 in class 1; a present mark for the same
\* student in class 2 and for student 3 in class 1; one body without status.
AttendanceBodies ==
    [studentId : {2}, classId : {1}, status : Statuses, date : Dates]
      \cup [studentId : {2}, classId : {2}, status : {"present"}, date : Dates]
      \cup [studentId : {3}, classId : {1}, status : {"present"}, date : Dates]
      \cup {[studentId |-> 2, classId |-> 1]}

PostAttendance(body) ==
    /\ nextId.attendance <= MaxAttendance
    /\ UNCHANGED pending
    /\ req' = [op |-> "postAttendance", body |-> body]
    /\ IF ~insertAttendanceSchemaOk(body)
         THEN /\ resp' = Respond(400, Message("ZodError"))
              /\ UNCHANGED tables
         ELSE LET r == createAttendance(attendance, users, classes, nextId.attendance,
                                        body)
              IN IF r.ok
                   THEN /\ attendance' = r.tbl
                        /\ nextId' = [nextId EXCEPT !.attendance = @ + 1]
                        /\ resp' = Respond(201, r.row)
                        /\ UNCHANGED <<users, classes, enrollments, assessments, grades>>
                   ELSE /\ resp' = Respond(500, Message("Internal server error"))
                        /\ UNCHANGED tables

(***************************************************************************)
(* GET /api/students/:id/attendance/:classId                               *)
(***************************************************************************)
GetStudentAttendance(studentId, classId) ==
    /\ UNCHANGED pending
    /\ req' = [op |-> "getStudentAttendance", studentId |-> studentId,
               classId |-> classId]
    /\ LET attendanceRecords == getAttendanceByStudent(attendance, studentId, classId)
       IN resp' = Respond(200, [records |-> RowsToSeq(attendanceRecords),
                                summary |-> attendanceSummary(attendanceRecords)])
    /\ UNCHANGED tables

(***************************************************************************)
(* POST /api/assessments                                                   *)
(***************************************************************************)
insertAssessmentSchemaOk(body) ==
    {"classId", "name"} \subseteq DOMAIN body

AssessmentBodies ==
    [classId : 1..2, name : {"Quiz 1"}] \cup {[classId |-> 1]}

PostAssessment(body) ==
    /\ nextId.assessments <= MaxAssessments
    /\ UNCHANGED pending
    /\ req' = [op |-> "postAssessment", body |-> body]
    /\ IF ~insertAssessmentSchemaOk(body)
         THEN /\ resp' = Respond(400, Message("ZodError"))
              /\ UNCHANGED tables
         ELSE LET r == createAssessment(assessments, classes, nextId.assessments, body)
              IN IF r.ok
                   THEN /\ assessments' = r.tbl
                        /\ nextId' = [nextId EXCEPT !.assessments = @ + 1]
                        /\ resp' = Respond(201, r.row)
                        /\ UNCHANGED <<users, classes, enrollments, attendance, grades>>
                   ELSE /\ resp' = Respond(500, Message("Internal server error"))
                        /\ UNCHANGED tables

(***************************************************************************)
(* POST /api/grades                                                        *)
(***************************************************************************)
\* insertGradeSchema: studentId, assessmentId and score required, comment optional.
insertGradeSchemaOk(body) ==
    {"studentId", "assessmentId", "score"} \subseteq DOMAIN body

\* Every score for student 2 on assessment 1 and one score on the other
\* assessments; one grade of student 3; one body without score.
GradeBodies ==
    [studentId : {2}, assessmentId : {1}, score : Scores]
      \cup [studentId : {2}, assessmentId : 2..MaxAssessments, score : {85}]
      \cup {[studentId |-> 3, assessmentId |-> 1, score |-> 85],
            [studentId |-> 2, assessmentId |-> 1]}

PostGrade(body) ==
    /\ nextId.grades <= MaxGrades
    /\ UNCHANGED pending
    /\ req' = [op |-> "postGrade", body |-> body]
    /\ IF ~insertGradeSchemaOk(body)
         THEN /\ resp' = Respond(400, Message("ZodError"))
              /\ UNCHANGED tables
         ELSE LET r == createGrade(grades, users, assessments, nextId.grades, body)
              IN IF r.ok
                   THEN /\ grades' = r.tbl
                        /\ nextId' = [nextId EXCEPT !.grades = @ + 1]
                        /\ resp' = Respond(201, r.row)
                        /\ UNCHANGED <<users, classes, enrollments, attendance,
                                       assessments>>
                   ELSE /\ resp' = Respond(500, Message("Internal server error"))
                        /\ UNCHANGED tables

(***************************************************************************)
(* GET /api/students/:id/grades/:classId                                   *)
(***************************************************************************)
GetStudentGrades(studentId, classId) ==
    /\ UNCHANGED pending
    /\ req' = [op |-> "getStudentGrades", studentId |-> studentId, classId |-> classId]
    /\ LET asmts == getAssessmentsByClass(assessments, classId)
           gs == getGradesByStudent(grades, assessments, studentId, classId)
           gradeRecord(grade) ==
               LET assessment == FirstRow({a \in asmts : a.id = grade.assessmentId})
               IN [id |-> grade.id,
                   assessment |-> IF IsRow(assessment) THEN assessment.name
                                  ELSE "Unknown",
                   grade |-> grade.score]
       IN resp' = Respond(200,
                     [records |-> [i \in 1..Cardinality(gs) |->
                                     gradeRecord(RowsToSeq(gs)[i])],
                      current |-> currentGrade(gs)])
    /\ UNCHANGED tables

(***************************************************************************)
(* POST /api/attendance/bulk                                               *)
(***************************************************************************)
\* A loop that gives up at the first record the repository refuses.
RECURSIVE createAttendanceUntilRejected(_, _, _)
createAttendanceUntilRejected(tbl, id, records) ==
    IF records = <<>>
      THEN [tbl |-> tbl, id |-> id, results |-> <<>>, rejected |-> FALSE]
      ELSE LET r == createAttendance(tbl, users, classes, id, Head(records))
               rest == createAttendanceUntilRejected(r.tbl, id + 1, Tail(records))
           IN IF r.ok
                THEN [tbl |-> rest.tbl, id |-> rest.id,
                      results |-> <<r.row>> \o rest.results,
                      rejected |-> rest.rejected]
                ELSE [tbl |-> tbl, id |-> id, results |-> <<>>, rejected |-> TRUE]

\* records.map(record => storage.createAttendance(record)): the statement of
\* each record runs when its call is made, in array order; a refused record
\* makes its own promise reject and the map goes on with the next record.
RECURSIVE createAttendanceEach(_, _, _)
createAttendanceEach(tbl, id, records) ==
    IF records = <<>>
      THEN [tbl |-> tbl, id |-> id, results |-> <<>>, rejected |-> FALSE]
      ELSE LET r == createAttendance(tbl, users, classes, id, Head(records))
               rest == createAttendanceEach(r.tbl, IF r.ok THEN id + 1 ELSE id,
                                            Tail(records))
           IN [tbl |-> rest.tbl, id |-> rest.id,
               results |-> IF r.ok THEN <<r.row>> \o rest.results ELSE rest.results,
               rejected |-> ~r.ok \/ rest.rejected]

AttendanceRecord(studentId, classId, status) ==
    [status |-> status, classId |-> classId, studentId |-> studentId,
     date |-> "2024-01-01"]

\* An empty batch, a batch of two good records, a batch whose second record
\* names a student that does not exist, a record with a status outside the
\* four, and a record without status.
AttendanceBatches ==
    {<<>>,
     <<AttendanceRecord(2, 1, "present"), AttendanceRecord(3, 1, "absent")>>,
     <<AttendanceRecord(2, 1, "present"), AttendanceRecord(9, 1, "present"),
       AttendanceRecord(3, 1, "late")>>,
     <<AttendanceRecord(2, 1, "sick")>>,
     <<[studentId |-> 2, classId |-> 1]>>}

\* Bodies with a records array and one body without.
AttendanceBulkBodies ==
    {[records |-> b] : b \in AttendanceBatches} \cup {[note |-> "no records"]}

CreatedMessage(n, what) == ToString(n) \o " " \o what \o " created"

PostAttendanceBulk(body) ==
    /\ UNCHANGED pending
    /\ req' = [op |-> "postAttendanceBulk", body |-> body]
    /\ IF "records" \notin DOMAIN body
         THEN /\ resp' = Respond(400, Message("Records must be an array"))
              /\ UNCHANGED tables
         ELSE /\ nextId.attendance + Len(body.records) <= MaxAttendance + 1
              /\ LET r == createAttendanceEach(attendance, nextId.attendance,
                                               body.records)
                 IN /\ attendance' = r.tbl
                    /\ nextId' = [nextId EXCEPT !.attendance = r.id]
                    /\ resp' = IF r.rejected
                                 THEN Respond(500, Message("Internal server error"))
                                 ELSE Respond(201,
                                        [message |-> CreatedMessage(Len(r.results),
                                                        "attendance records"),
                                         records |-> r.results])
              /\ UNCHANGED <<users, classes, enrollments, assessments, grades>>

(***************************************************************************)
(* POST /api/grades/bulk                                                   *)
(***************************************************************************)
\* records.map(record => storage.createGrade(record))
RECURSIVE createGradeEach(_, _, _)
createGradeEach(tbl, id, records) ==
    IF records = <<>>
      THEN [tbl |-> tbl, id |-> id, results |-> <<>>, rejected |-> FALSE]
      ELSE LET r == createGrade(tbl, users, assessments, id, Head(records))
               rest == createGradeEach(r.tbl, IF r.ok THEN id + 1 ELSE id,
                                       Tail(records))
           IN [tbl |-> rest.tbl, id |-> rest.id,
               results |-> IF r.ok THEN <<r.row>> \o rest.results ELSE rest.results,
               rejected |-> ~r.ok \/ rest.rejected]

GradeRecord(studentId, assessmentId, score) ==
    [studentId |-> studentId, assessmentId |-> assessmentId, score |-> score]

\* An empty batch, a batch of two good grades, a batch whose second grade
\* names an assessment that does not exist, and a grade without score.
GradeBatches ==
    {<<>>,
     <<GradeRecord(2, 1, 85), GradeRecord(3, 1, 78)>>,
     <<GradeRecord(2, 1, 88), GradeRecord(2, 9, 85), GradeRecord(3, 1, 78)>>,
     <<[studentId |-> 2, assessmentId |-> 1]>>}

GradeBulkBodies ==
    {[records |-> b] : b \in GradeBatches} \cup {[note |-> "no records"]}

PostGradesBulk(body) ==
    /\ UNCHANGED pending
    /\ req' = [op |-> "postGradesBulk", body |-> body]
    /\ IF "records" \notin DOMAIN body
         THEN /\ resp' = Respond(400, Message("Records must be an array"))
              /\ UNCHANGED tables
         ELSE /\ nextId.grades + Len(body.records) <= MaxGrades + 1
              /\ LET r == createGradeEach(grades, nextId.grades, body.records)
                 IN /\ grades' = r.tbl
                    /\ nextId' = [nextId EXCEPT !.grades = r.id]
                    /\ resp' = IF r.rejected
                                 THEN Respond(500, Message("Internal server error"))
                                 ELSE Respond(201,
                                        [message |-> CreatedMessage(Len(r.results),
                                                        "grade records"),
                                         records |-> r.results])
              /\ UNCHANGED <<users, classes, enrollments, attendance, assessments>>

(***************************************************************************)
(* GET /api/enrollments?studentId=                                         *)
(***************************************************************************)
\* The body is the array itself; the model names it classes.
GetEnrollments(studentId) ==
    /\ UNCHANGED pending
    /\ req' = [op |-> "getEnrollments", studentId |-> studentId]
    /\ resp' = Respond(200, [classes |-> getEnrollmentsByStudent(studentId)])
    /\ UNCHANGED tables

(***************************************************************************)
(* Specification.                                                          *)
(***************************************************************************)
NoRequest == [op |-> "none"]

NoResponse == [status |-> 0, body |-> Message("")]

\* Two requests can be in the server at a time.
Handlers == {1, 2}

\* A handler that has no request.
Idle == [stage |-> "idle", req |-> NoRequest, responses |-> 0, calls |-> 0]

EmptyDb ==
    /\ users = {}
    /\ classes = {}
    /\ enrollments = {}
    /\ attendance = {}
    /\ assessments = {}
    /\ grades = {}
    /\ nextId = [users |-> 1, classes |-> 1, enrollments |-> 1, attendance |-> 1,
                 assessments |-> 1, grades |-> 1]

Init ==
    /\ EmptyDb
    /\ req = NoRequest
    /\ resp = NoResponse
    /\ pending = [h \in Handlers |-> Idle]

Next ==
    \/ \E body \in LoginBodies : Login(body)
    \/ \E body \in RegisterBodies : Register(body)
    \/ \E body \in ClassBodies, randomStr \in RandomSuffixes : CreateClass(body, randomStr)
    \/ \E id \in 1..MaxClasses : DeleteClass(id)
    \/ \E body \in EnrollBodies : PostEnrollment(body)

Spec == Init /\ [][Next]_vars

(***************************************************************************)
(* A database after three registrations, two class creations and three     *)
(* enrollments: teacher 1, students 2 and 3, classes 1 and 2; both         *)
(* students are in class 1 and student 2 is also in class 2.               *)
(***************************************************************************)
SeededDb ==
    /\ users = {[id |-> 1, username |-> "teacher1", password |-> "password123",
                 role |-> "teacher", name |-> "John Smith"],
                [id |-> 2, username |-> "student1", password |-> "password123",
                 role |-> "student", name |-> "Alice Johnson"],
                [id |-> 3, username |-> "student2", password |-> "password123",
                 role |-> "student", name |-> "Bob Smith"]}
    /\ classes = {[id |-> 1, name |-> "Mathematics 101", subject |-> "mathematics",
                   description |-> "", gradeLevel |-> "10",
                   classCode |-> "MATH-XYZ123", teacherId |-> 1,
                   createdAt |-> DefaultDate],
                  [id |-> 2, name |-> "Physics 202", subject |-> "science",
                   description |-> "", gradeLevel |-> "11",
                   classCode |-> "SCIE-ABC456", teacherId |-> 1,
                   createdAt |-> DefaultDate]}
    /\ enrollments = {[id |-> 1, studentId |-> 2, classId |-> 1],
                      [id |-> 2, studentId |-> 3, classId |-> 1],
                      [id |-> 3, studentId |-> 2, classId |-> 2]}
    /\ attendance = {}
    /\ assessments = {}
    /\ grades = {}
    /\ nextId = [users |-> 4, classes |-> 3, enrollments |-> 4, attendance |-> 1,
                 assessments |-> 1, grades |-> 1]

InitSeeded ==
    /\ SeededDb
    /\ req = NoRequest
    /\ resp = NoResponse
    /\ pending = [h \in Handlers |-> Idle]

\* Attendance is taken and read.
NextAttendance ==
    \/ \E body \in AttendanceBodies : PostAttendance(body)
    \/ \E studentId \in 2..3, classId \in 1..2 : GetStudentAttendance(studentId, classId)
    \/ \E studentId \in 2..3 : GetEnrollments(studentId)

SpecAttendance == InitSeeded /\ [][NextAttendance]_vars

\* Assessments are created, graded and read.
NextGrades ==
    \/ \E body \in AssessmentBodies : PostAssessment(body)
    \/ \E body \in GradeBodies : PostGrade(body)
    \/ \E studentId \in 2..3, classId \in 1..2 : GetStudentGrades(studentId, classId)
    \/ \E studentId \in 2..3 : GetEnrollments(studentId)

SpecGrades == InitSeeded /\ [][NextGrades]_vars

\* Classes are edited and deleted; id 3 is the id of no class.
NextClasses ==
    \/ \E id \in 1..3, body \in UpdateBodies : UpdateClass(id, body)
    \/ \E id \in 1..3 : DeleteClass(id)

SpecClasses == InitSeeded /\ [][NextClasses]_vars

\* Attendance and grades are written in batches; single attendance records
\* with an unlisted status or without status are posted too.
NextBulk ==
    \/ \E body \in {AttendanceRecord(2, 1, "sick"), [studentId |-> 2, classId |-> 1]} :
          PostAttendance(body)
    \/ \E body \in AttendanceBulkBodies : PostAttendanceBulk(body)
    \/ \E body \in AssessmentBodies : PostAssessment(body)
    \/ \E body \in GradeBulkBodies : PostGradesBulk(body)

SpecBulk == InitSeeded /\ [][NextBulk]_vars

(***************************************************************************)
(* Handlers split at their awaits.  A handler runs from the arrival of its *)
(* request to its first await, and from one await to the next; the call of *)
(* a repository method runs its statement at once and the handler goes on  *)
(* when the promise is taken up again.  pending[h] is the request of       *)
(* handler h, where it waits, how many repository writes it has called and *)
(* how many responses it has sent.                                         *)
(***************************************************************************)
Free(h) == pending[h].stage \in {"idle", "done"}

\* return res.status(...).json(...) before the first await.
RespondAtOnce(h, request, response) ==
    /\ req' = request
    /\ resp' = response
    /\ pending' = [pending EXCEPT ![h] =
                      [stage |-> "done", req |-> request, responses |-> 1, calls |-> 0,
                       failed |-> TRUE]]
    /\ UNCHANGED tables

\* A handler that swallows a refusal of the repository.
OutcomeSwallowed(ok, success) == success

\* What the try block answers with when the repository call went well, and the
\* catch block when it threw.
Outcome(ok, success) ==
    IF ok THEN success ELSE Respond(500, Message("Internal server error"))

\* POST /api/enrollments up to await storage.getClassByCode(...): the body is
\* checked and the class is looked up.
PostEnrollmentLookup(h, body) ==
    LET request == [op |-> "postEnrollment", body |-> body]
        waiting == Cardinality({k \in Handlers : pending[k].stage = "createEnrollment"})
    IN /\ Free(h)
       /\ nextId.enrollments + waiting <= MaxEnrollments
       /\ IF ~classCodeSchemaOk(body)
            THEN RespondAtOnce(h, request, Respond(400, Message("ZodError")))
            ELSE IF "studentId" \notin DOMAIN body
                   THEN RespondAtOnce(h, request,
                            Respond(400, Message("Valid student ID is required")))
                   ELSE /\ pending' = [pending EXCEPT ![h] =
                                         [stage |-> "createEnrollment", req |-> request,
                                          responses |-> 0, calls |-> 0,
                                          classRecord |->
                                              getClassByCode(classes, body.classCode),
                                          lookedUpAt |-> nextId.enrollments]]
                        /\ UNCHANGED <<tables, req, resp>>

\* POST /api/enrollments from the class lookup to await
\* storage.createEnrollment(...): 404 without a class, the INSERT otherwise.
PostEnrollmentCreate(h) ==
    LET p == pending[h]
    IN /\ p.stage = "createEnrollment"
       /\ IF ~IsRow(p.classRecord)
            THEN /\ req' = p.req
                 /\ resp' = Respond(404, Message("Class not found"))
                 /\ pending' = [pending EXCEPT ![h] =
                                   [stage |-> "done", req |-> p.req, responses |-> 1,
                                    calls |-> 0, failed |-> TRUE]]
                 /\ UNCHANGED tables
            ELSE LET r == createEnrollment(enrollments, users, classes,
                                           nextId.enrollments,
                                           [classId |-> p.classRecord.id,
                                            studentId |-> p.req.body.studentId])
                 IN /\ enrollments' = r.tbl
                    /\ nextId' = [nextId EXCEPT !.enrollments =
                                      IF r.ok THEN @ + 1 ELSE @]
                    /\ pending' = [pending EXCEPT ![h] =
                                      [stage |-> "respond", req |-> p.req,
                                       responses |-> 0, calls |-> 1,
                                       failed |-> ~r.ok,
                                       lookedUpAt |-> p.lookedUpAt,
                                       outcome |-> Outcome(r.ok, Respond(201,
                                           [message |-> "Successfully enrolled in class",
                                            enrollment |-> r.row]))]]
                    /\ UNCHANGED <<users, classes, attendance, assessments, grades,
                                   req, resp>>

\* DELETE /api/classes/:id up to await storage.deleteClass(classId).
DeleteClassCall(h, id) ==
    LET request == [op |-> "deleteClass", id |-> id,
                    existed |-> \E c \in classes : c.id = id]
        r == deleteClass(classes, id)
    IN /\ Free(h)
       /\ classes' = r.tbl
       /\ pending' = [pending EXCEPT ![h] =
                         [stage |-> "respond", req |-> request, responses |-> 0,
                          calls |-> 1, failed |-> ~r.ok,
                          outcome |-> Outcome(r.ok,
                              Respond(200, Message("Class deleted successfully")))]]
       /\ UNCHANGED <<users, enrollments, attendance, assessments, grades, nextId,
                      req, resp>>

\* PUT /api/classes/:id up to await storage.updateClass(classId, updateData),
\* for a body that names a field of a class.
UpdateClassCall(h, id, body) ==
    LET updateData == [f \in DOMAIN body \cap UpdateFields |->
                          IF f = "description" /\ body[f] = "" THEN Null ELSE body[f]]
        request == [op |-> "updateClass", id |-> id,
                    existed |-> \E c \in classes : c.id = id,
                    fields |-> DOMAIN updateData]
        r == updateClass(classes, id, updateData)
    IN /\ Free(h)
       /\ DOMAIN updateData # {}
       /\ classes' = r.tbl
       /\ pending' = [pending EXCEPT ![h] =
                         [stage |-> "respond", req |-> request, responses |-> 0,
                          calls |-> 1, failed |-> ~r.ok,
                          outcome |-> Outcome(r.ok, Respond(200, r.row))]]
       /\ UNCHANGED <<users, enrollments, attendance, assessments, grades, nextId,
                      req, resp>>

\* POST /api/attendance/bulk up to await Promise.all(...): the map has called
\* the repository for every record.
PostAttendanceBulkCall(h, body) ==
    LET request == [op |-> "postAttendanceBulk", body |-> body]
    IN /\ Free(h)
       /\ IF "records" \notin DOMAIN body
            THEN RespondAtOnce(h, request,
                     Respond(400, Message("Records must be an array")))
            ELSE /\ nextId.attendance + Len(body.records) <= MaxAttendance + 1
                 /\ LET r == createAttendanceEach(attendance, nextId.attendance,
                                                  body.records)
                    IN /\ attendance' = r.tbl
                       /\ nextId' = [nextId EXCEPT !.attendance = r.id]
                       /\ pending' = [pending EXCEPT ![h] =
                             [stage |-> "respond", req |-> request, responses |-> 0,
                              calls |-> Len(body.records), failed |-> r.rejected,
                              outcome |-> Outcome(~r.rejected, Respond(201,
                                  [message |-> CreatedMessage(Len(r.results),
                                                   "attendance records"),
                                   records |-> r.results]))]]
                 /\ UNCHANGED <<users, classes, enrollments, assessments, grades,
                                req, resp>>

\* The handler is taken up after its last await and sends what the try block
\* or the catch block returns.
HandlerRespond(h) ==
    LET p == pending[h]
    IN /\ p.stage = "respond"
       /\ req' = p.req
       /\ resp' = p.outcome
       /\ pending' = [pending EXCEPT ![h] =
                         [p EXCEPT !.stage = "done", !.responses = @ + 1]]
       /\ UNCHANGED tables

\* The database after three registrations and two class creations; nobody is
\* enrolled yet.
InitHandlers ==
    /\ users = {[id |-> 1, username |-> "teacher1", password |-> "password123",
                 role |-> "teacher", name |-> "John Smith"],
                [id |-> 2, username |-> "student1", password |-> "password123",
                 role |-> "student", name |-> "Alice Johnson"],
                [id |-> 3, username |-> "student2", password |-> "password123",
                 role |-> "student", name |-> "Bob Smith"]}
    /\ classes = {[id |-> 1, name |-> "Mathematics 101", subject |-> "mathematics",
                   description |-> "", gradeLevel |-> "10",
                   classCode |-> "MATH-XYZ123", teacherId |-> 1,
                   createdAt |-> DefaultDate],
                  [id |-> 2, name |-> "Physics 202", subject |-> "science",
                   description |-> "", gradeLevel |-> "11",
                   classCode |-> "SCIE-ABC456", teacherId |-> 1,
                   createdAt |-> DefaultDate]}
    /\ enrollments = {}
    /\ attendance = {}
    /\ assessments = {}
    /\ grades = {}
    /\ nextId = [users |-> 4, classes |-> 3, enrollments |-> 1, attendance |-> 1,
                 assessments |-> 1, grades |-> 1]
    /\ req = NoRequest
    /\ resp = NoResponse
    /\ pending = [h \in Handlers |-> Idle]

\* Join requests with the code of class 1, with a code of no class, with a
\* code that is too short and without student id.
JoinBodies ==
    [classCode : {"MATH-XYZ123", "NOPE-000000"}, studentId : {2}]
      \cup {[classCode |-> "abc", studentId |-> 2], [classCode |-> "MATH-XYZ123"]}

NextHandlers ==
    \/ \E h \in Handlers, body \in JoinBodies : PostEnrollmentLookup(h, body)
    \/ \E h \in Handlers : PostEnrollmentCreate(h)
    \/ \E h \in Handlers : UpdateClassCall(h, 2, [name |-> "Algebra I"])
    \/ \E h \in Handlers : DeleteClassCall(h, 1)
    \/ \E h \in Handlers,
          body \in {[records |-> <<AttendanceRecord(2, 1, "present"),
                                   AttendanceRecord(9, 1, "present"),
                                   AttendanceRecord(3, 1, "late")>>],
                    [note |-> "no records"]} : PostAttendanceBulkCall(h, body)
    \/ \E h \in Handlers : HandlerRespond(h)

SpecHandlers == InitHandlers /\ [][NextHandlers]_vars

\* The event loop takes up every handler whose promise has settled.
FairSpecHandlers ==
    /\ SpecHandlers
    /\ \A h \in Handlers : WF_vars(PostEnrollmentCreate(h))
    /\ \A h \in Handlers : WF_vars(HandlerRespond(h))

\* Classes are deleted while students join and attendance, assessments and
\* grades are written, some of them for ids that do not exist.
NextIntegrity ==
    \/ \E id \in 1..2 : DeleteClass(id)
    \/ \E body \in [classCode : {"MATH-XYZ123"}, studentId : {2, 9}] : PostEnrollment(body)
    \/ \E body \in {[records |-> <<AttendanceRecord(2, 1, "present"),
                                   AttendanceRecord(9, 1, "present"),
                                   AttendanceRecord(3, 2, "late")>>]} :
          PostAttendanceBulk(body)
    \/ \E body \in AssessmentBodies : PostAssessment(body)
    \/ \E body \in {[records |-> <<GradeRecord(2, 1, 85), GradeRecord(2, 9, 85),
                                   GradeRecord(3, 2, 78)>>]} : PostGradesBulk(body)

SpecIntegrity == InitHandlers /\ [][NextIntegrity]_vars

\* Classes are deleted while class 1 gets an enrollment, attendance records,
\* assessments and grades.
NextDelete ==
    \/ \E id \in 1..2 : DeleteClass(id)
    \/ PostEnrollment([classCode |-> "MATH-XYZ123", studentId |-> 2])
    \/ PostAttendanceBulk([records |-> <<AttendanceRecord(2, 1, "present"),
                                         AttendanceRecord(3, 1, "late")>>])
    \/ \E body \in AssessmentBodies : PostAssessment(body)
    \/ PostGradesBulk([records |-> <<GradeRecord(2, 1, 85), GradeRecord(3, 2, 78)>>])

SpecDelete == InitHandlers /\ [][NextDelete]_vars

\* Attendance is written one record at a time and in batches, with a status of
\* the enumeration and with another text, and the summary is read.
NextSummary ==
    \/ \E status \in {"present", "late", "sick"} :
          PostAttendance(AttendanceRecord(2, 1, status))
    \/ \E body \in {[records |-> <<AttendanceRecord(2, 1, "present"),
                                   AttendanceRecord(2, 1, "sick")>>],
                    [note |-> "no records"]} : PostAttendanceBulk(body)
    \/ \E studentId \in 2..3 : GetStudentAttendance(studentId, 1)

SpecSummary == InitSeeded /\ [][NextSummary]_vars

\* Batches that name the same key twice are written, and the records are read.
NextDuplicates ==
    \/ PostAttendanceBulk([records |-> <<AttendanceRecord(2, 1, "present"),
                                         AttendanceRecord(2, 1, "absent")>>])
    \/ \E body \in AssessmentBodies : PostAssessment(body)
    \/ PostGradesBulk([records |-> <<GradeRecord(2, 1, 85), GradeRecord(2, 1, 78)>>])
    \/ GetStudentAttendance(2, 1)
    \/ GetStudentGrades(2, 1)

SpecDuplicates == InitSeeded /\ [][NextDuplicates]_vars

(***************************************************************************)
(* Repository: updateAttendance and updateGrade.  No route calls them; they *)
(* are called on the repository object.                                    *)
(***************************************************************************)
\* UPDATE attendance SET ... WHERE id = ? RETURNING, then .get(), for a
\* non-empty set of columns: undefined when no row has the id; refused when
\* the new student_id or class_id is the id of no row.
updateAttendance(tbl, userTbl, classTbl, id, attendanceData) ==
    LET old == {a \in tbl : a.id = id}
        set(a) == [f \in DOMAIN a |-> IF f \in DOMAIN attendanceData
                                        THEN attendanceData[f] ELSE a[f]]
        new == {set(a) : a \in old}
    IN IF \E a \in new : \/ ~\E u \in userTbl : u.id = a.studentId
                          \/ ~\E c \in classTbl : c.id = a.classId
         THEN [ok |-> FALSE, row |-> Undefined, tbl |-> tbl]
         ELSE [ok |-> TRUE, row |-> FirstRow(new), tbl |-> (tbl \ old) \cup new]

\* UPDATE grades SET ... WHERE id = ? RETURNING, for a non-empty set of
\* columns.
updateGrade(tbl, userTbl, assessmentTbl, id, gradeData) ==
    LET old == {g \in tbl : g.id = id}
        set(g) == [f \in DOMAIN g |-> IF f \in DOMAIN gradeData
                                        THEN gradeData[f] ELSE g[f]]
        new == {set(g) : g \in old}
    IN IF \E g \in new : \/ ~\E u \in userTbl : u.id = g.studentId
                          \/ ~\E a \in assessmentTbl : a.id = g.assessmentId
         THEN [ok |-> FALSE, row |-> Undefined, tbl |-> tbl]
         ELSE [ok |-> TRUE, row |-> FirstRow(new), tbl |-> (tbl \ old) \cup new]

\* storage.updateAttendance(id, attendanceData); req records the call and
\* whether it returned, no response is sent.
UpdateAttendanceCall(id, attendanceData) ==
    LET r == updateAttendance(attendance, users, classes, id, attendanceData)
    IN /\ UNCHANGED pending
       /\ req' = [op |-> "updateAttendance", id |-> id, data |-> attendanceData,
                  returned |-> r.ok]
       /\ resp' = NoResponse
       /\ attendance' = r.tbl
       /\ UNCHANGED <<users, classes, enrollments, assessments, grades, nextId>>

\* storage.updateGrade(id, gradeData)
UpdateGradeCall(id, gradeData) ==
    LET r == updateGrade(grades, users, assessments, id, gradeData)
    IN /\ UNCHANGED pending
       /\ req' = [op |-> "updateGrade", id |-> id, data |-> gradeData,
                  returned |-> r.ok]
       /\ resp' = NoResponse
       /\ grades' = r.tbl
       /\ UNCHANGED <<users, classes, enrollments, attendance, assessments, nextId>>

\* Attendance and grades of students 2 and 3 are created and the second row
\* of each table is updated: another status or score, another student, a
\* student that does not exist.
NextUpdates ==
    \/ \E studentId \in 2..3 : PostAttendance(AttendanceRecord(studentId, 1, "present"))
    \/ \E attendanceData \in {[status |-> "late"], [studentId |-> 3],
                               [studentId |-> 9]} :
          UpdateAttendanceCall(2, attendanceData)
    \/ PostAssessment([classId |-> 1, name |-> "Quiz 1"])
    \/ \E studentId \in 2..3 : PostGrade(GradeRecord(studentId, 1, 85))
    \/ \E gradeData \in {[score |-> 78], [studentId |-> 3]} :
          UpdateGradeCall(2, gradeData)

SpecUpdates == InitSeeded /\ [][NextUpdates]_vars

(***************************************************************************)
(* GET /api/classes/:id/students                                           *)
(***************************************************************************)
\* enrollments.map(enrollment => enrollment.studentId) over the enrollments of
\* the class.
studentIdsOfClass(classId) ==
    {e.studentId : e \in {x \in enrollments : x.classId = classId}}

\* SELECT * FROM users WHERE id IN (studentIds), for a list that is not empty.
getStudentsByClass(classId) ==
    {u \in users : u.id \in studentIdsOfClass(classId)}

\* For a class without enrollments the list given to inArray is empty: the
\* query builder throws in the versions that require a value (the handler
\* answers 500) and builds a condition that is false in the others (200 with
\* an empty array).  The body is the array itself; the model names it
\* students.
GetClassStudents(classId) ==
    /\ UNCHANGED pending
    /\ req' = [op |-> "getClassStudents", classId |-> classId]
    /\ IF studentIdsOfClass(classId) = {}
         THEN \/ resp' = Respond(500, Message("Internal server error"))
              \/ resp' = Respond(200, [students |-> <<>>])
         ELSE resp' = Respond(200,
                          [students |-> RowsToSeq(getStudentsByClass(classId))])
    /\ UNCHANGED tables

\* The teacher and the students redeem the codes of the two classes; the
\* rosters of the classes and the classes of the students are read.
NextRoster ==
    \/ \E body \in [classCode : {"MATH-XYZ123", "SCIE-ABC456"}, studentId : 1..3] :
          PostEnrollment(body)
    \/ \E classId \in 1..2 : GetClassStudents(classId)
    \/ \E studentId \in 2..3 : GetEnrollments(studentId)

SpecRoster == InitHandlers /\ [][NextRoster]_vars

(***************************************************************************)
(* POST /api/auth/register split at its awaits.                            *)
(***************************************************************************)
\* Up to await storage.getUserByUsername(data.username): the body is parsed
\* and the SELECT has run.
RegisterLookup(h, body) ==
    LET request == [op |-> "register", body |-> body]
        waiting == Cardinality({k \in Handlers : pending[k].stage = "createUser"})
    IN /\ Free(h)
       /\ nextId.users + waiting <= MaxUsers
       /\ IF ~insertUserSchemaOk(body)
            THEN RespondAtOnce(h, request, Respond(400, Message("ZodError")))
            ELSE /\ pending' = [pending EXCEPT ![h] =
                                  [stage |-> "createUser", req |-> request,
                                   responses |-> 0, calls |-> 0,
                                   existingUser |->
                                       getUserByUsername(users, body.username)]]
                 /\ UNCHANGED <<tables, req, resp>>

\* From the lookup to await storage.createUser(data): 400 when the lookup found
\* a user, the INSERT otherwise.
RegisterCreate(h) ==
    LET p == pending[h]
    IN /\ p.stage = "createUser"
       /\ IF IsRow(p.existingUser)
            THEN /\ req' = p.req
                 /\ resp' = Respond(400, Message("Username already exists"))
                 /\ pending' = [pending EXCEPT ![h] =
                                   [stage |-> "done", req |-> p.req, responses |-> 1,
                                    calls |-> 0, failed |-> TRUE]]
                 /\ UNCHANGED tables
            ELSE LET r == createUser(users, nextId.users, p.req.body)
                 IN /\ users' = r.tbl
                    /\ nextId' = [nextId EXCEPT !.users = IF r.ok THEN @ + 1 ELSE @]
                    /\ pending' = [pending EXCEPT ![h] =
                                      [stage |-> "respond", req |-> p.req,
                                       responses |-> 0, calls |-> 1,
                                       failed |-> ~r.ok,
                                       outcome |-> Outcome(r.ok,
                                           Respond(201, userWithoutPassword(r.row)))]]
                    /\ UNCHANGED <<classes, enrollments, attendance, assessments,
                                   grades, req, resp>>

\* Registrations arrive while others wait at an await; the database starts
\* empty.
NextRegister ==
    \/ \E h \in Handlers, body \in RegisterBodies : RegisterLookup(h, body)
    \/ \E h \in Handlers : RegisterCreate(h)
    \/ \E h \in Handlers : HandlerRespond(h)

SpecRegister == Init /\ [][NextRegister]_vars

(***************************************************************************)
(* Properties.                                                             *)
(***************************************************************************)

\* C1: enrollment is idempotent: there is at most one enrollment row for each
\* (studentId, classId) pair, whatever join requests were handled.
C1_EnrollmentIdempotent ==
    \A e1, e2 \in enrollments :
        (e1.studentId = e2.studentId /\ e1.classId = e2.classId) => e1.id = e2.id

\* C2: createAttendance is an upsert: there is at most one attendance record
\* for each (classId, studentId, date).
C2_AttendanceOnePerKey ==
    \A a1, a2 \in attendance :
        (a1.classId = a2.classId /\ a1.studentId = a2.studentId /\ a1.date = a2.date)
            => a1.id = a2.id

\* C3: createGrade is an upsert: a student has at most one grade for each
\* assessment.
C3_GradeOnePerKey ==
    \A g1, g2 \in grades :
        (g1.studentId = g2.studentId /\ g1.assessmentId = g2.assessmentId)
            => g1.id = g2.id

\* C4: deleting a class cascades: once DELETE /api/classes/:id has been handled
\* for a class that existed, the class is gone and so are its enrollments, its
\* attendance records, its assessments and the grades of those assessments.
C4_DeleteClassCascades ==
    (req.op = "deleteClass" /\ req.existed) =>
        /\ resp.status = 200
        /\ ~\E c \in classes : c.id = req.id
        /\ ~\E e \in enrollments : e.classId = req.id
        /\ ~\E a \in attendance : a.classId = req.id
        /\ ~\E a \in assessments : a.classId = req.id
        /\ \A g \in grades : \E a \in assessments : a.id = g.assessmentId

\* C5: the rate answered by GET /api/students/:id/attendance/:classId is the
\* integer nearest to 100 * present / total over the student's records in that
\* class (only status present counts), and 0 when there is no record.
C5_AttendanceRate ==
    req.op = "getStudentAttendance" =>
        LET recs == {a \in attendance :
                        a.studentId = req.studentId /\ a.classId = req.classId}
            total == Cardinality(recs)
            present == Cardinality({a \in recs : a.status = "present"})
            rate == resp.body.summary.rate
        IN IF total = 0 THEN rate = 0
           ELSE /\ 2 * total * rate - total <= 200 * present
                /\ 200 * present < 2 * total * rate + total

\* C5 witness: the records [present, present, absent, late] are answered with 50.
C5_Witness ==
    /\ req.op = "getStudentAttendance"
    /\ Len(resp.body.records) = 4
    /\ resp.body.summary.present = 2
    /\ resp.body.summary.absent = 1
    /\ resp.body.summary.late = 1
    /\ resp.body.summary.rate = 50

\* C6: the current grade answered by GET /api/students/:id/grades/:classId is
\* "N/A" when the student has no grade on an assessment of that class, and
\* otherwise the mean of exactly those grades' scores written with one decimal,
\* the nearest tenth.
C6_CurrentGrade ==
    req.op = "getStudentGrades" =>
        LET gs == {g \in grades :
                      /\ g.studentId = req.studentId
                      /\ \E a \in assessments :
                            a.id = g.assessmentId /\ a.classId = req.classId}
            n == Cardinality(gs)
            total == SumScores(gs)
        IN IF n = 0 THEN resp.body.current = "N/A"
           ELSE \E t \in 0..1000 :
                   /\ resp.body.current = ToString(t \div 10) \o "." \o ToString(t % 10)
                   /\ 2 * n * t - n <= 20 * total
                   /\ 20 * total < 2 * n * t + n

\* C6 witness: the scores 85, 88 and 78 are answered with "83.7".
C6_Witness ==
    /\ req.op = "getStudentGrades"
    /\ {resp.body.records[i].grade : i \in DOMAIN resp.body.records} = {85, 88, 78}
    /\ Len(resp.body.records) = 3
    /\ resp.body.current = "83.7"

\* C7: every entry returned by getEnrollmentsByStudent carries the attendance
\* rate and the grade average that the per-student detail endpoints compute for
\* the same student and class.
C7_EnrollmentSummaryAgrees ==
    req.op = "getEnrollments" =>
        \A i \in DOMAIN resp.body.classes :
            LET entry == resp.body.classes[i]
            IN /\ entry.attendance =
                    ToString(attendanceSummary(
                        getAttendanceByStudent(attendance, req.studentId, entry.id)).rate)
                      \o "%"
               /\ entry.grade =
                    currentGrade(getGradesByStudent(grades, assessments,
                                                    req.studentId, entry.id))

\* C8: a well-formed login is answered 401 exactly when no user has the given
\* username, password and role together, and otherwise 200 with that user.
C8_LoginUnauthorized ==
    (req.op = "login" /\ loginSchemaOk(req.body)) =>
        LET match == {u \in users : /\ u.username = req.body.username
                                    /\ u.password = req.body.password
                                    /\ u.role = req.body.role}
        IN /\ resp.status = 401 <=> match = {}
           /\ match # {} =>
                 /\ resp.status = 200
                 /\ \E u \in match : resp.body.id = u.id /\ resp.body.username = u.username

\* C8 witness: a login with the right username and password and the wrong role
\* was answered 401.
C8_Witness ==
    /\ req.op = "login"
    /\ resp.status = 401
    /\ \E u \in users : /\ u.username = req.body.username
                        /\ u.password = req.body.password
                        /\ u.role # req.body.role

\* C9: the body of a successful login or register answer is a stored user
\* without its password field.
C9_NoPasswordInResponse ==
    (req.op \in {"login", "register"} /\ resp.status \in {200, 201}) =>
        /\ "password" \notin DOMAIN resp.body
        /\ \E u \in users :
              /\ DOMAIN resp.body = DOMAIN u \ {"password"}
              /\ \A f \in DOMAIN resp.body : resp.body[f] = u[f]

\* C9 witness: a login was answered 200.
C9_Witness ==
    /\ req.op = "login"
    /\ resp.status = 200
    /\ resp.body.username = req.body.username

\* C10: usernames are unique: no two users share a username, createUser fails
\* for a username that exists, and a registration with a taken username is
\* answered 400 and adds no user.
C10_UsernamesUnique ==
    /\ [](\A u1, u2 \in users : u1.username = u2.username => u1.id = u2.id)
    /\ [](\A body \in RegisterBodies :
             (insertUserSchemaOk(body) /\ \E u \in users : u.username = body.username)
                 => ~createUser(users, nextId.users, body).ok)
    /\ [][(/\ req'.op = "register"
           /\ insertUserSchemaOk(req'.body)
           /\ \E u \in users : u.username = req'.body.username)
              => (resp'.status = 400 /\ users' = users)]_vars

\* C10 witness: a registration was refused because the username was taken.
C10_Witness ==
    /\ req.op = "register"
    /\ resp.status = 400
    /\ insertUserSchemaOk(req.body)
    /\ \E u \in users : u.username = req.body.username

\* C11: updating or deleting a class whose id does not exist is a not-found
\* error: PUT and DELETE /api/classes/:id for an id of no class are answered 404
\* and leave classes, enrollments, attendance, assessments and grades as they
\* were.
C11_UnknownClassNotFound ==
    [][(/\ req'.op \in {"updateClass", "deleteClass"}
        /\ ~\E c \in classes : c.id = req'.id)
           => (resp'.status = 404 /\ UNCHANGED tables)]_vars

C13_BulkNotAtomic ==
    [][(req'.op \in {"postAttendanceBulk", "postGradesBulk"}
          /\ "records" \in DOMAIN req'.body)
         => LET records == req'.body.records
                isAttendance == req'.op = "postAttendanceBulk"
                accepted(i) ==
                    IF isAttendance
                      THEN createAttendance(attendance, users, classes, 0,
                                            records[i]).ok
                      ELSE createGrade(grades, users, assessments, 0, records[i]).ok
                applied == {i \in 1..Len(records) : accepted(i)}
                old == IF isAttendance THEN attendance ELSE grades
                new == IF isAttendance THEN attendance' ELSE grades'
                key == IF isAttendance THEN {"studentId", "classId", "status"}
                       ELSE {"studentId", "assessmentId", "score"}
                added == new \ old
            IN /\ old \subseteq new
               /\ Cardinality(added) = Cardinality(applied)
               /\ \A i \in applied :
                     \E row \in added : \A f \in key : row[f] = records[i][f]
               /\ resp'.status = IF applied = 1..Len(records) THEN 201 ELSE 500]_vars

\* C13 witness: a batch of three attendance records whose second record was
\* refused was answered 500, and the rows of the first and of the third record
\* are stored.
C13_Witness ==
    /\ req.op = "postAttendanceBulk"
    /\ "records" \in DOMAIN req.body
    /\ Len(req.body.records) = 3
    /\ resp.status = 500
    /\ \E a1, a3 \in attendance :
          /\ a3.id = a1.id + 1
          /\ a1.studentId = req.body.records[1].studentId
          /\ a1.status = req.body.records[1].status
          /\ a3.studentId = req.body.records[3].studentId
          /\ a3.status = req.body.records[3].status
    /\ ~\E a \in attendance : a.studentId = req.body.records[2].studentId

\* C14: class codes are unique: no two stored classes have the same classCode,
\* so getClassByCode finds at most one class; the repository refuses a class
\* whose generated code is the code of a stored class, and POST /api/classes
\* stores a class only under a code no stored class has, leaving the classes
\* as they were when it does not answer 201.
C14_ClassCodesUnique ==
    /\ [](\A c1, c2 \in classes : c1.classCode = c2.classCode => c1.id = c2.id)
    /\ [](\A code \in ClassCodes :
             Cardinality({c \in classes : c.classCode = code}) <= 1)
    /\ [](\A c \in classes :
             ~createClass(classes, users, nextId.classes,
                          [c EXCEPT !.name = "Mathematics 102"]).ok)
    /\ [][req'.op = "createClass"
            => IF resp'.status = 201
                 THEN /\ resp'.body.classCode \notin {c.classCode : c \in classes}
                      /\ classes' = classes \cup {resp'.body}
                 ELSE classes' = classes]_vars

\* C14 witness: a complete creation request of an existing teacher was refused
\* while a class exists: the generated code was the code of that class.
C14_Witness ==
    /\ req.op = "createClass"
    /\ resp.status = 500
    /\ {"teacherId", "name", "subject", "gradeLevel"} \subseteq DOMAIN req.body
    /\ \E u \in users : u.id = req.body.teacherId
    /\ Cardinality(classes) = 1

\* C15: class creation requires teacherId, name, subject and gradeLevel: POST
\* /api/classes with one of them missing is answered 400 and stores no class.
C15_CreateClassValidates ==
    [][(/\ req'.op = "createClass"
        /\ ~({"teacherId", "name", "subject", "gradeLevel"} \subseteq DOMAIN req'.body))
           => (resp'.status = 400 /\ classes' = classes)]_vars

\* C16: malformed input never reaches the repository: no stored attendance
\* record has a status outside present, absent, late and excused, and a request
\* to POST /api/attendance, /api/attendance/bulk or /api/grades/bulk that carries
\* a record with a missing field or such a status writes nothing.
C16_MalformedNeverStored ==
    /\ [](\A a \in attendance : a.status \in Statuses)
    /\ [][LET wellFormed(record) ==
                  IF req'.op = "postGradesBulk"
                    THEN insertGradeSchemaOk(record)
                    ELSE /\ insertAttendanceSchemaOk(record)
                         /\ record.status \in Statuses
               records == IF req'.op = "postAttendance" THEN <<req'.body>>
                          ELSE req'.body.records
           IN (/\ req'.op \in {"postAttendance", "postAttendanceBulk", "postGradesBulk"}
               /\ req'.op = "postAttendance" \/ "records" \in DOMAIN req'.body
               /\ \E i \in 1..Len(records) : ~wellFormed(records[i]))
                  => UNCHANGED tables]_vars

\* C17: joining is check-then-act without protection against a second writer:
\* once a join request has looked up its class, its write adds a row for the
\* pair and is answered 201 whenever the student and the class still exist,
\* also when another request has enrolled the same pair since the lookup; so
\* two requests for the same pair that both look up the class before either
\* writes leave two enrollment rows for the pair.
C17_EnrollmentRace ==
    [][\A h \in Handlers :
          (/\ pending[h].stage = "createEnrollment"
           /\ pending'[h].stage = "respond"
           /\ \E u \in users : u.id = pending[h].req.body.studentId
           /\ \E c \in classes : c.id = pending[h].classRecord.id)
              => /\ pending'[h].outcome.status = 201
                 /\ \E e \in enrollments' \ enrollments :
                       /\ enrollments' = enrollments \cup {e}
                       /\ e.studentId = pending[h].req.body.studentId
                       /\ e.classId = pending[h].classRecord.id]_vars

\* C17 witness: both handlers looked up the class when no row had been written,
\* both were answered 201, and the two rows they wrote are for the same pair.
C17_Witness ==
    /\ \A h \in Handlers :
          /\ pending[h].stage = "done"
          /\ pending[h].req.op = "postEnrollment"
          /\ "lookedUpAt" \in DOMAIN pending[h]
          /\ pending[h].lookedUpAt = 1
          /\ pending[h].outcome.status = 201
    /\ \E e1, e2 \in enrollments :
          /\ e1.id = 1
          /\ e2.id = 2
          /\ e1.studentId = e2.studentId
          /\ e1.classId = e2.classId

\* C18: the 401 of POST /api/auth/login does not tell which check failed: any
\* two well-formed logins that fail, for an unknown username, a wrong password
\* or a wrong role, are answered with the same status and the same body.
C18_LoginFailuresAlike ==
    [][(/\ req.op = "login" /\ loginSchemaOk(req.body) /\ resp.status # 200
        /\ req'.op = "login" /\ loginSchemaOk(req'.body) /\ resp'.status # 200)
           => resp' = resp]_vars

\* C18 witness: a login with a wrong password was refused while a username of
\* the alphabet is unknown, so that a login can fail for either reason.
C18_Witness ==
    /\ req.op = "login"
    /\ resp.status = 401
    /\ \E u \in users : /\ u.username = req.body.username
                        /\ u.role = req.body.role
                        /\ u.password # req.body.password
    /\ \E name \in Usernames : \A u \in users : u.username # name

C20_ReferentialIntegrity ==
    LET userIds == {u.id : u \in users}
        classIds == {c.id : c \in classes}
        assessmentIds == {a.id : a \in assessments}
    IN /\ \A c \in classes : c.teacherId \in userIds
       /\ \A e \in enrollments : e.classId \in classIds /\ e.studentId \in userIds
       /\ \A a \in attendance : a.classId \in classIds /\ a.studentId \in userIds
       /\ \A a \in assessments : a.classId \in classIds
       /\ \A g \in grades : g.assessmentId \in assessmentIds /\ g.studentId \in userIds

\* C20 witness: one class has been deleted, the deletion of the other class,
\* which has an enrollment, an attendance record, an assessment and a grade on
\* it, was asked for, and the class is still there.
C20_Witness ==
    /\ req.op = "deleteClass"
    /\ req.existed
    /\ Cardinality(classes) = 1
    /\ \E c \in classes :
          /\ c.id = req.id
          /\ \E e \in enrollments : e.classId = c.id
          /\ \E a \in attendance : a.classId = c.id
          /\ \E a \in assessments : a.classId = c.id /\ \E g \in grades : g.assessmentId = a.id

\* C21: a join request that interleaves with the deletion of its class leaves
\* no orphan: no enrollment ever names a class that is not stored, and a join
\* request whose class was deleted between its lookup and its write writes
\* nothing and is answered 500.
C21_NoOrphanEnrollment ==
    /\ [](\A e \in enrollments : \E c \in classes : c.id = e.classId)
    /\ [][\A h \in Handlers :
             (/\ pending[h].stage = "createEnrollment"
              /\ pending'[h].stage = "respond"
              /\ IsRow(pending[h].classRecord)
              /\ ~\E c \in classes : c.id = pending[h].classRecord.id)
                 => /\ enrollments' = enrollments
                    /\ pending'[h].outcome.status = 500]_vars

\* C21 witness: a join request found its class, the class was deleted before
\* the write, and the request has been answered 500 with no enrollment stored.
C21_Witness ==
    \E h \in Handlers :
        /\ pending[h].stage = "done"
        /\ pending[h].req.op = "postEnrollment"
        /\ "lookedUpAt" \in DOMAIN pending[h]
        /\ pending[h].outcome.status = 500
        /\ \E u \in users : u.id = pending[h].req.body.studentId
        /\ ~\E c \in classes : c.classCode = pending[h].req.body.classCode
        /\ enrollments = {}

\* C22: registration keeps usernames unique under interleaving: no two users
\* share a username, no two requests in the server have both been answered 201
\* for the same username, and a registration whose username was taken between
\* its lookup and its write adds no user and is answered 500.
C22_RegisterRace ==
    /\ [](\A u1, u2 \in users : u1.username = u2.username => u1.id = u2.id)
    /\ [](\A h1, h2 \in Handlers :
             (/\ h1 # h2
              /\ pending[h1].req.op = "register"
              /\ pending[h2].req.op = "register"
              /\ "outcome" \in DOMAIN pending[h1]
              /\ "outcome" \in DOMAIN pending[h2]
              /\ pending[h1].req.body.username = pending[h2].req.body.username)
                 => ~(/\ pending[h1].outcome.status = 201
                      /\ pending[h2].outcome.status = 201))
    /\ [][\A h \in Handlers :
             (/\ pending[h].stage = "createUser"
              /\ pending'[h].stage = "respond"
              /\ \E u \in users : u.username = pending[h].req.body.username)
                 => /\ users' = users
                    /\ pending'[h].outcome.status = 500]_vars

\* C22 witness: two registrations with the same username both looked the name
\* up before either wrote; one has been answered 201, the other 500, and one
\* user has the name.
C22_Witness ==
    /\ \A h \in Handlers :
          /\ pending[h].stage = "done"
          /\ pending[h].req.op = "register"
          /\ "outcome" \in DOMAIN pending[h]
          /\ pending[h].req.body.username = "teacher1"
    /\ {pending[h].outcome.status : h \in Handlers} = {201, 500}
    /\ Cardinality({u \in users : u.username = "teacher1"}) = 1

\* C23: deleteClass(id) changes nothing outside the deleted class: when DELETE
\* /api/classes/:id is handled, all users, every other class, and every
\* enrollment, attendance record, assessment and grade of another class are
\* the same after it as before, and no row is added anywhere.
C23_DeleteClassFrame ==
    [][req'.op = "deleteClass"
         => LET id == req'.id
                otherAssessments == {a.id : a \in {x \in assessments : x.classId # id}}
            IN /\ users' = users
               /\ classes' \subseteq classes
               /\ {c \in classes' : c.id # id} = {c \in classes : c.id # id}
               /\ enrollments' \subseteq enrollments
               /\ {e \in enrollments' : e.classId # id}
                     = {e \in enrollments : e.classId # id}
               /\ attendance' \subseteq attendance
               /\ {a \in attendance' : a.classId # id}
                     = {a \in attendance : a.classId # id}
               /\ assessments' \subseteq assessments
               /\ {a \in assessments' : a.classId # id}
                     = {a \in assessments : a.classId # id}
               /\ grades' \subseteq grades
               /\ {g \in grades' : g.assessmentId \in otherAssessments}
                     = {g \in grades : g.assessmentId \in otherAssessments}
               /\ nextId' = nextId]_vars

\* C23 witness: class 2 was deleted while class 1 has an enrollment, an
\* attendance record, an assessment and a grade; class 1 and its records are
\* still stored.
C23_Witness ==
    /\ req.op = "deleteClass"
    /\ req.existed
    /\ req.id = 2
    /\ resp.status = 200
    /\ ~\E c \in classes : c.id = 2
    /\ \E c \in classes : c.id = 1
    /\ \E e \in enrollments : e.classId = 1
    /\ \E a \in attendance : a.classId = 1
    /\ \E a \in assessments : a.classId = 1 /\ \E g \in grades : g.assessmentId = a.id

\* C24: PUT /api/classes/:id changes only the fields name, subject,
\* description and gradeLevel that the request provides: the class keeps its
\* id, classCode, teacherId and createdAt (the code is not regenerated when the
\* subject changes) and the value of every field not provided, every other
\* class is as it was, no class is added or removed, and no other table
\* changes.
C24_UpdateClassFrame ==
    [][req'.op = "updateClass"
         => /\ req'.fields \subseteq UpdateFields
            /\ {c.id : c \in classes'} = {c.id : c \in classes}
            /\ Cardinality(classes') = Cardinality(classes)
            /\ \A c \in classes :
                  IF c.id # req'.id THEN c \in classes'
                  ELSE \E d \in classes' :
                          /\ d.id = c.id
                          /\ DOMAIN d = DOMAIN c
                          /\ \A f \in DOMAIN c \ req'.fields : d[f] = c[f]
                          /\ \A f \in {"id", "classCode", "teacherId", "createdAt"} :
                                d[f] = c[f]
            /\ UNCHANGED <<users, enrollments, attendance, assessments, grades,
                           nextId>>]_vars

\* C24 witness: name, subject and gradeLevel of class 1 were changed; the
\* class is stored with the new subject, its old code and its old
\* description, and class 2 has not changed.
C24_Witness ==
    /\ req.op = "updateClass"
    /\ req.id = 1
    /\ req.fields = {"name", "subject", "gradeLevel"}
    /\ resp.status = 200
    /\ resp.body \in classes
    /\ resp.body.subject = "algebra"
    /\ resp.body.classCode = "MATH-XYZ123"
    /\ resp.body.description = ""
    /\ \E c \in classes : c.id = 2 /\ c.name = "Physics 202"

\* C25: in the attendance summary of GET /api/students/:id/attendance/:classId
\* present + absent + late + excused is the number of records returned and rate
\* is an integer between 0 and 100, whatever attendance records were stored
\* through the API, POST /api/attendance/bulk included.
C25_SummaryAddsUp ==
    req.op = "getStudentAttendance" =>
        LET summary == resp.body.summary
        IN /\ summary.present + summary.absent + summary.late + summary.excused
                 = Len(resp.body.records)
           /\ summary.rate \in 0..100

\* C26: a bulk batch that names a key twice is applied in array order: after
\* POST /api/attendance/bulk with two records for the same (student, class,
\* date), or POST /api/grades/bulk with two records for the same (student,
\* assessment) of a stored assessment, exactly one stored record has that key
\* and it holds the status, resp. the score, of the later element.
C26_BulkLastWins ==
    /\ (req.op = "postAttendanceBulk" /\ "records" \in DOMAIN req.body) =>
          \A i, j \in 1..Len(req.body.records) :
             LET first == req.body.records[i]
                 last == req.body.records[j]
                 stored == {a \in attendance : /\ a.studentId = last.studentId
                                                /\ a.classId = last.classId
                                                /\ a.date = last.date}
             IN (/\ i < j
                 /\ first.studentId = last.studentId
                 /\ first.classId = last.classId
                 /\ first.date = last.date
                 /\ ~\E k \in (j + 1)..Len(req.body.records) :
                        /\ req.body.records[k].studentId = last.studentId
                        /\ req.body.records[k].classId = last.classId
                        /\ req.body.records[k].date = last.date)
                    => /\ Cardinality(stored) = 1
                       /\ \A a \in stored : a.status = last.status
    /\ (req.op = "postGradesBulk" /\ "records" \in DOMAIN req.body) =>
          \A i, j \in 1..Len(req.body.records) :
             LET first == req.body.records[i]
                 last == req.body.records[j]
                 stored == {g \in grades : /\ g.studentId = last.studentId
                                            /\ g.assessmentId = last.assessmentId}
             IN (/\ i < j
                 /\ first.studentId = last.studentId
                 /\ first.assessmentId = last.assessmentId
                 /\ \E a \in assessments : a.id = last.assessmentId
                 /\ ~\E k \in (j + 1)..Len(req.body.records) :
                        /\ req.body.records[k].studentId = last.studentId
                        /\ req.body.records[k].assessmentId = last.assessmentId)
                    => /\ Cardinality(stored) = 1
                       /\ \A g \in stored : g.score = last.score

\* C27: the update operations keep the uniqueness keys: whatever
\* createAttendance, updateAttendance, createGrade and updateGrade calls were
\* made there is at most one attendance record per (classId, studentId, date)
\* and at most one grade per (assessmentId, studentId), and an update never
\* leaves the updated record with the key of another stored record.
C27_UpdatesKeepKeys ==
    /\ [](\A a1, a2 \in attendance :
             (a1.classId = a2.classId /\ a1.studentId = a2.studentId
                 /\ a1.date = a2.date) => a1 = a2)
    /\ [](\A g1, g2 \in grades :
             (g1.assessmentId = g2.assessmentId /\ g1.studentId = g2.studentId)
                 => g1 = g2)
    /\ [][req'.op = "updateAttendance"
            => \A a1, a2 \in attendance' :
                  (a1.id = req'.id /\ a2.id # req'.id)
                     => ~(/\ a1.classId = a2.classId
                          /\ a1.studentId = a2.studentId
                          /\ a1.date = a2.date)]_vars
    /\ [][req'.op = "updateGrade"
            => \A g1, g2 \in grades' :
                  (g1.id = req'.id /\ g2.id # req'.id)
                     => ~(/\ g1.assessmentId = g2.assessmentId
                          /\ g1.studentId = g2.studentId)]_vars

C29_EnrolledClassesExact ==
    req.op = "getEnrollments" =>
        LET entries == resp.body.classes
            mine == {c \in classes : \E e \in enrollments :
                        e.studentId = req.studentId /\ e.classId = c.id}
        IN /\ resp.status = 200
           /\ Len(entries) = Cardinality(mine)
           /\ {entries[i].id : i \in DOMAIN entries} = {c.id : c \in mine}
           /\ \A i \in DOMAIN entries :
                 \E c \in mine :
                    /\ c.id = entries[i].id
                    /\ \A f \in DOMAIN c : entries[i][f] = c[f]
                    /\ \E t \in users : t.id = c.teacherId /\ entries[i].teacher = t.name

\* C29 witness: the student redeemed the code of class 1 twice, two enrollment
\* rows are stored, and the answer has one entry, class 1 with its teacher.
C29_Witness ==
    /\ req.op = "getEnrollments"
    /\ Cardinality({e \in enrollments :
                       e.studentId = req.studentId /\ e.classId = 1}) = 2
    /\ Len(resp.body.classes) = 1
    /\ resp.body.classes[1].id = 1
    /\ resp.body.classes[1].teacher = "John Smith"

====
